---- MODULE Spec2Model ----
(***************************************************************************)
(* Consumer tier of the crowdfunding indexer: the state store (campaigns,  *)
(* contributions, events) and the three message handlers of the consumer   *)
(* worker (event, rollback, reconciliation), as implemented under          *)
(* src/indexer/consumer and src/indexer/db.                                *)
(***************************************************************************)
EXTENDS Integers, Sequences, FiniteSets, Bags, TLC

(* ------------------------------------------------------------------ *)
(* Bounds of the model                                                *)
(* ------------------------------------------------------------------ *)

\* Highest block number a rollback range may name.
MaxBlock == 3

\* Highest wall-clock reading (unix seconds) a reconciliation may observe.
MaxNow == 3

(* ------------------------------------------------------------------ *)
(* Program constants                                                  *)
(* ------------------------------------------------------------------ *)

\* Config.chain_id default; every handler is built with config.chain_id.
ChainId == 31337

\* SQL NULL of the nullable BigInteger column withdrawn_amount_wei.
Null == -1

(* ------------------------------------------------------------------ *)
(* The messages on the bus: the logs of a small chain history.        *)
(* Campaign "a" (goal 3, deadline 2) is created, receives 1 and then  *)
(* 2 from donor "d1" and is withdrawn; campaign "b" (goal 3,          *)
(* deadline 2) is created, receives 1 from "d1" and refunds it after  *)
(* its deadline.  (block_number, log_index) is unique, as log_index   *)
(* is the position of the log in its block.                           *)
(* ------------------------------------------------------------------ *)

EventData(campaign, donor, amount, newTotalRaised, goal, deadline) ==
    [campaign |-> campaign, donor |-> donor, amount |-> amount,
     newTotalRaised |-> newTotalRaised, goal |-> goal, deadline |-> deadline]

EventMessage(event_type, tx_hash, log_index, block_number, address, event_data) ==
    [message_type |-> "event", event_type |-> event_type, chain_id |-> ChainId,
     tx_hash |-> tx_hash, log_index |-> log_index, block_number |-> block_number,
     address |-> address, event_data |-> event_data]

Factory == "f"

Msgs ==
    { EventMessage("CampaignCreated",  1, 0, 1, Factory, EventData("a", "", 0, 0, 3, 2)),
      EventMessage("DonationReceived", 2, 1, 1, "a", EventData("a", "d1", 1, 1, 0, 0)),
      EventMessage("DonationReceived", 3, 0, 2, "a", EventData("a", "d1", 2, 3, 0, 0)),
      EventMessage("Withdrawn",        4, 0, 3, "a", EventData("a", "", 3, 0, 0, 0)),
      EventMessage("CampaignCreated",  5, 2, 1, Factory, EventData("b", "", 0, 0, 3, 2)),
      EventMessage("DonationReceived", 6, 1, 2, "b", EventData("b", "d1", 1, 1, 0, 0)),
      EventMessage("Refunded",         7, 1, 3, "b", EventData("b", "d1", 1, 0, 0, 0)) }

Addrs == {m.event_data.campaign : m \in Msgs}

Donors == {m.event_data.donor : m \in Msgs} \ {""}

Blocks == 1..MaxBlock

Times == 1..MaxNow

(* ------------------------------------------------------------------ *)
(* State store                                                        *)
(* ------------------------------------------------------------------ *)

VARIABLES
    campaigns,      \* table campaigns: address (PK) -> row
    contributions,  \* table contributions: <<campaign_address, donor_address>> -> row
    events,         \* table events: bag of rows (the surrogate id is not modelled)
    processed,      \* history: event messages handled on an existing campaign row
    after_withdrawn, \* history: campaigns that had a message handled while WITHDRAWN
    wtx,            \* per worker: its open unit of work (session), or idle
    replay,         \* history: the sequence E handled so far, the rows S1 it
                    \* led to, and what is left of its second publication
    bus,            \* broker: per published message, whether it is queued,
                    \* acked or dead-lettered, its headers and its requeues
    producer        \* the chain as the RPC node reports it, the sync_state
                    \* cursor, the producer's running index_block_range and
                    \* what it has published

vars == <<campaigns, contributions, events, processed, after_withdrawn, wtx,
          replay, bus, producer>>

\* The two derived tables, threaded through the state updater.
Store(camps, contribs) == [campaigns |-> camps, contributions |-> contribs]

Campaign(goal_wei, deadline_ts, status, total_raised_wei, withdrawn, withdrawn_amount_wei) ==
    [goal_wei |-> goal_wei, deadline_ts |-> deadline_ts, status |-> status,
     total_raised_wei |-> total_raised_wei, withdrawn |-> withdrawn,
     withdrawn_amount_wei |-> withdrawn_amount_wei]

Contribution(contributed_wei, refunded_wei) ==
    [contributed_wei |-> contributed_wei, refunded_wei |-> refunded_wei]

\* json.dumps(event_data): the text of the object, as its key/value pairs.
json_dumps(d) ==
    << <<"campaign", d.campaign>>, <<"donor", d.donor>>, <<"amount", d.amount>>,
       <<"newTotalRaised", d.newTotalRaised>>, <<"goal", d.goal>>,
       <<"deadline", d.deadline>> >>

\* json.loads(text): the object whose keys are the pairs' first components.
json_loads(s) ==
    LET val(k) == (CHOOSE i \in 1..Len(s) : s[i][1] = k)
    IN  [campaign |-> s[val("campaign")][2], donor |-> s[val("donor")][2],
         amount |-> s[val("amount")][2],
         newTotalRaised |-> s[val("newTotalRaised")][2],
         goal |-> s[val("goal")][2], deadline |-> s[val("deadline")][2]]

Event(tx_hash, log_index, block_number, address, event_name, event_data, removed) ==
    [chain_id |-> ChainId, tx_hash |-> tx_hash, log_index |-> log_index,
     block_number |-> block_number, address |-> address,
     event_name |-> event_name, event_data |-> event_data, removed |-> removed]

\* The rows of a bag of event rows.
Rows(evs) == BagToSet(evs)

(* ------------------------------------------------------------------ *)
(* State updater                                                      *)
(* ------------------------------------------------------------------ *)

\* Variant of apply_campaign_created whose status guard forgets WITHDRAWN.
apply_campaign_created_guard_success_only(db, event_data) ==
    LET a == event_data.campaign IN
    IF a \notin DOMAIN db.campaigns
    THEN Store(db.campaigns @@
                 (a :> Campaign(event_data.goal, event_data.deadline, "ACTIVE", 0, FALSE, Null)),
               db.contributions)
    ELSE LET c == db.campaigns[a] IN
         Store([db.campaigns EXCEPT ![a] =
                   [c EXCEPT !.goal_wei = event_data.goal,
                             !.deadline_ts = event_data.deadline,
                             !.status = IF c.status \notin {"SUCCESS"}
                                        THEN "ACTIVE" ELSE c.status]],
               db.contributions)

\* ConsumerStateUpdater.apply_campaign_created
apply_campaign_created(db, event_data) ==
    LET a == event_data.campaign IN
    IF a \notin DOMAIN db.campaigns
    THEN Store(db.campaigns @@
                 (a :> Campaign(event_data.goal, event_data.deadline, "ACTIVE", 0, FALSE, Null)),
               db.contributions)
    ELSE LET c == db.campaigns[a] IN
         Store([db.campaigns EXCEPT ![a] =
                   [c EXCEPT !.goal_wei = event_data.goal,
                             !.deadline_ts = event_data.deadline,
                             !.status = IF c.status \notin {"SUCCESS", "WITHDRAWN"}
                                        THEN "ACTIVE" ELSE c.status]],
               db.contributions)

\* Variant of apply_donation_received that overwrites contributed_wei with
\* the amount instead of adding to it.
apply_donation_received_overwrite(db, event_data) ==
    LET a == event_data.campaign
        k == <<event_data.campaign, event_data.donor>>
    IN
    IF a \notin DOMAIN db.campaigns THEN db
    ELSE LET c == db.campaigns[a]
             contribs == IF k \notin DOMAIN db.contributions
                         THEN db.contributions @@ (k :> Contribution(event_data.amount, 0))
                         ELSE [db.contributions EXCEPT ![k].contributed_wei = event_data.amount]
         IN Store([db.campaigns EXCEPT ![a] =
                      [c EXCEPT !.total_raised_wei = event_data.newTotalRaised,
                                !.status = IF event_data.newTotalRaised >= c.goal_wei
                                              /\ c.status = "ACTIVE"
                                           THEN "SUCCESS" ELSE c.status]],
                  contribs)

\* ConsumerStateUpdater.apply_donation_received
apply_donation_received(db, event_data) ==
    LET a == event_data.campaign
        k == <<event_data.campaign, event_data.donor>>
    IN
    IF a \notin DOMAIN db.campaigns THEN db
    ELSE LET c == db.campaigns[a]
             contribs == IF k \notin DOMAIN db.contributions
                         THEN db.contributions @@ (k :> Contribution(event_data.amount, 0))
                         ELSE [db.contributions EXCEPT ![k].contributed_wei = @ + event_data.amount]
         IN Store([db.campaigns EXCEPT ![a] =
                      [c EXCEPT !.total_raised_wei = event_data.newTotalRaised,
                                !.status = IF event_data.newTotalRaised >= c.goal_wei
                                              /\ c.status = "ACTIVE"
                                           THEN "SUCCESS" ELSE c.status]],
                  contribs)

\* ConsumerStateUpdater.apply_withdrawn
apply_withdrawn(db, event_data) ==
    LET a == event_data.campaign IN
    IF a \notin DOMAIN db.campaigns THEN db
    ELSE Store([db.campaigns EXCEPT ![a] =
                   [@ EXCEPT !.withdrawn = TRUE,
                             !.withdrawn_amount_wei = event_data.amount,
                             !.status = "WITHDRAWN"]],
               db.contributions)

\* Variant of apply_refunded that keeps the net contribution: the refund is
\* also taken off contributed_wei.
apply_refunded_net(db, event_data) ==
    LET k == <<event_data.campaign, event_data.donor>> IN
    IF k \notin DOMAIN db.contributions THEN db
    ELSE Store(db.campaigns,
               [db.contributions EXCEPT
                   ![k] = [@ EXCEPT !.refunded_wei = @ + event_data.amount,
                                    !.contributed_wei = @ - event_data.amount]])

\* ConsumerStateUpdater.apply_refunded
apply_refunded(db, event_data) ==
    LET k == <<event_data.campaign, event_data.donor>> IN
    IF k \notin DOMAIN db.contributions THEN db
    ELSE Store(db.campaigns,
               [db.contributions EXCEPT ![k].refunded_wei = @ + event_data.amount])

\* ConsumerStateUpdater.apply_event
apply_event(db, event_type, event_data) ==
    CASE event_type = "CampaignCreated"  -> apply_campaign_created(db, event_data)
      [] event_type = "DonationReceived" -> apply_donation_received(db, event_data)
      [] event_type = "Withdrawn"        -> apply_withdrawn(db, event_data)
      [] event_type = "Refunded"         -> apply_refunded(db, event_data)
      [] OTHER                           -> db

(* ------------------------------------------------------------------ *)
(* Session semantics                                                  *)
(* ------------------------------------------------------------------ *)

\* Variant of the session factory: sessionmaker(autoflush=True).
autoflush_on == TRUE

\* sessionmaker(autoflush=...): whether a query first flushes the session's
\* pending changes to the database.
autoflush == FALSE

\* What a SELECT filters on: the rows as stored in the database, which lack
\* the session's unflushed attribute changes unless the session autoflushes.
QueryView(stored, pending) == IF autoflush THEN pending ELSE stored

(* ------------------------------------------------------------------ *)
(* Event insert                                                       *)
(* ------------------------------------------------------------------ *)

SameKey(e, tx_hash, log_index) ==
    e.chain_id = ChainId /\ e.tx_hash = tx_hash /\ e.log_index = log_index

\* insert_event, lines 53-65: the lookup that precedes the INSERT.
existing(evs, tx_hash, log_index) ==
    \E e \in Rows(evs) : SameKey(e, tx_hash, log_index)

\* The events table without its unique constraint.
uq_events_missing(evs, row) == FALSE

\* UniqueConstraint uq_events_chain_tx_log, checked by the database on flush.
uq_events_chain_tx_log(evs, row) ==
    \E e \in Rows(evs) : SameKey(e, row.tx_hash, row.log_index)

\* The events table without its foreign key to campaigns.
events_address_fkey_missing(camps, row) == FALSE

\* ForeignKey events.address -> campaigns.address, checked on flush.
events_address_fkey(camps, row) == row.address \notin DOMAIN camps

\* ConsumerStateUpdater.insert_event: "False" (already there), "True"
\* (inserted), "Duplicate" (unique violation: session rolled back, False
\* returned) or "IntegrityError" (foreign key: session rolled back, raised).
insert_event(camps, evs, row) ==
    IF existing(evs, row.tx_hash, row.log_index) THEN "False"
    ELSE IF uq_events_chain_tx_log(evs, row) THEN "Duplicate"
    ELSE IF events_address_fkey(camps, row) THEN "IntegrityError"
    ELSE "True"

(* ------------------------------------------------------------------ *)
(* Event handler                                                      *)
(* ------------------------------------------------------------------ *)

Result(camps, contribs, evs, returned) ==
    [campaigns |-> camps, contributions |-> contribs, events |-> evs,
     returned |-> returned]

\* EventHandler._handle_event_message inside get_session(): the rows that
\* are committed and what the handler returns or raises.
handle_event_message(camps, contribs, evs, m) ==
    LET event_type == m.event_type
        event_data == m.event_data
        address == IF event_type = "CampaignCreated" /\ event_data.campaign # ""
                   THEN event_data.campaign ELSE m.address
        db0 == Store(camps, contribs)
        \* apply_campaign_created and session.flush() come first
        db1 == IF event_type = "CampaignCreated"
               THEN apply_campaign_created(db0, event_data) ELSE db0
        row == Event(m.tx_hash, m.log_index, m.block_number, address,
                     event_type, json_dumps(event_data), FALSE)
        inserted == insert_event(db1.campaigns, evs, row)
        db2 == IF event_type # "CampaignCreated"
               THEN apply_event(db1, event_type, event_data) ELSE db1
    IN
    CASE inserted = "False" ->
            \* return True inside the with block: get_session() commits
            Result(db1.campaigns, db1.contributions, evs, "True")
      [] inserted = "Duplicate" ->
            \* session.rollback() undid the flush; nothing is left to commit
            Result(camps, contribs, evs, "True")
      [] inserted = "IntegrityError" ->
            Result(camps, contribs, evs, "IntegrityError")
      [] OTHER ->
            Result(db2.campaigns, db2.contributions, evs (+) SetToBag({row}), "True")

\* Config.max_retries default.
max_retries == 3

\* get_retry_count: the x-retry-count header of the delivery, 0 if not set.
get_retry_count(headers) ==
    IF "x-retry-count" \in DOMAIN headers THEN headers["x-retry-count"] ELSE 0

\* ConsumerWorker._on_message: what is told to the broker for a delivery on
\* which handle_message returned True or False or raised.
on_message(returned, retry_count) ==
    CASE returned = "True"           -> "ack"
      [] returned = "False"          ->
            IF retry_count >= max_retries THEN "reject" ELSE "nack_requeue"
      [] returned = "IntegrityError" -> "ack"
      [] returned = "TransientError" -> "nack_requeue"
      [] OTHER                       ->
            IF retry_count >= max_retries THEN "reject" ELSE "nack_requeue"

\* Variant of _on_message whose retry handling is not under the else of
\* "if success".
answers_without_else(returned, retry_count) ==
    IF returned = "True"
    THEN <<"ack", IF retry_count >= max_retries THEN "reject" ELSE "nack_requeue">>
    ELSE <<on_message(returned, retry_count)>>

\* ConsumerWorker._on_message: the channel calls (basic_ack, basic_nack with
\* requeue, basic_reject without requeue) made for one delivery, in order.
answers(returned, retry_count) == <<on_message(returned, retry_count)>>

(* ------------------------------------------------------------------ *)
(* Rollback handler                                                   *)
(* ------------------------------------------------------------------ *)

\* Variant of the range filter that leaves out to_block.
InRange_exclusive(e, from_block, to_block) ==
    e.chain_id = ChainId /\ e.block_number >= from_block /\ e.block_number < to_block

\* The filter chain_id = X, block_number >= from_block, block_number <= to_block.
InRange(e, from_block, to_block) ==
    e.chain_id = ChainId /\ e.block_number >= from_block /\ e.block_number <= to_block

\* Variant of handle_rollback that marks only the first selected row
\* (.first() for .all()).
MarkRemoved_first(evs, from_block, to_block) ==
    LET sel == {e \in Rows(evs) : InRange(e, from_block, to_block) /\ ~e.removed}
    IN IF sel = {} THEN evs
       ELSE LET first == CHOOSE e \in sel : \A o \in sel :
                              \/ e.block_number < o.block_number
                              \/ e.block_number = o.block_number /\ e.log_index <= o.log_index
            IN (evs (-) SetToBag({first})) (+) SetToBag({[first EXCEPT !.removed = TRUE]})

\* handle_rollback, lines 46-59: event.removed = True on the rows selected;
\* a row that was already removed in the range stays as it is.
MarkRemoved(evs, from_block, to_block) ==
    LET selected(e) == InRange(e, from_block, to_block) /\ ~e.removed
        unmarked(r) == [r EXCEPT !.removed = FALSE]
        kept == {e \in Rows(evs) : ~selected(e)}
        marked == {[e EXCEPT !.removed = TRUE] : e \in {x \in Rows(evs) : selected(x)}}
    IN [r \in kept \cup marked |->
          (IF r \in kept THEN CopiesIn(r, evs) ELSE 0)
          + (IF r \in marked THEN CopiesIn(unmarked(r), evs) ELSE 0)]

\* Variant of the ordering: descending (block_number, log_index).
Before_descending(e1, e2) ==
    \/ e1.block_number > e2.block_number
    \/ e1.block_number = e2.block_number /\ e1.log_index >= e2.log_index

\* e1 does not come after e2 in ascending (block_number, log_index).
Before(e1, e2) ==
    \/ e1.block_number < e2.block_number
    \/ e1.block_number = e2.block_number /\ e1.log_index <= e2.log_index

\* .order_by(Event.block_number, Event.log_index).all()
RECURSIVE OrderBy(_)
OrderBy(evs) ==
    IF evs = EmptyBag THEN << >>
    ELSE LET first == CHOOSE e \in Rows(evs) : \A o \in Rows(evs) : Before(e, o)
         IN <<first>> \o OrderBy(evs (-) SetToBag({first}))

\* _rebuild_state, lines 77-87: the non-removed events of the range.
SelectEvents(evs, from_block, to_block) ==
    LET keep == {e \in Rows(evs) : InRange(e, from_block, to_block) /\ ~e.removed}
    IN OrderBy([e \in keep |-> CopiesIn(e, evs)])

\* _rebuild_state, lines 96-111: reset of the affected campaigns.
ResetCampaigns(camps, affected) ==
    [a \in DOMAIN camps |->
        IF a \in affected
        THEN [camps[a] EXCEPT !.total_raised_wei = 0, !.withdrawn = FALSE,
                              !.withdrawn_amount_wei = Null,
                              !.status = IF @ # "WITHDRAWN" THEN "ACTIVE" ELSE @]
        ELSE camps[a]]

\* _rebuild_state, lines 114-121: reset of their contributions.
ResetContributions(contribs, affected) ==
    [k \in DOMAIN contribs |->
        IF k[1] \in affected THEN Contribution(0, 0) ELSE contribs[k]]

\* _rebuild_state, lines 124-144: the replay loop.
RECURSIVE Replay(_, _)
Replay(db, evseq) ==
    IF evseq = << >> THEN db
    ELSE LET event == Head(evseq)
             args == json_loads(event.event_data)
         IN Replay(apply_event(db, event.event_name, args), Tail(evseq))

\* RollbackHandler._rebuild_state on the rows the session's queries see.
rebuild_state(db, visible, from_block, to_block) ==
    LET evseq == SelectEvents(visible, from_block, to_block)
        affected_campaigns == {evseq[i].address : i \in 1..Len(evseq)} \ {""}
    IN IF evseq = << >> THEN db
       ELSE Replay(Store(ResetCampaigns(db.campaigns, affected_campaigns),
                         ResetContributions(db.contributions, affected_campaigns)),
                   evseq)

(* ------------------------------------------------------------------ *)
(* Reconciliation handler                                             *)
(* ------------------------------------------------------------------ *)

\* Variant of the expiry filter: deadline_ts <= now.
mark_expired_campaigns_deadline_inclusive(camps, now_timestamp) ==
    [a \in DOMAIN camps |->
        LET c == camps[a] IN
        IF /\ c.status = "ACTIVE"
           /\ c.deadline_ts <= now_timestamp
           /\ c.withdrawn = FALSE
           /\ c.total_raised_wei < c.goal_wei
        THEN [c EXCEPT !.status = "FAILED"] ELSE c]

\* ReconciliationHandler._mark_expired_campaigns at wall-clock time now.
mark_expired_campaigns(camps, now_timestamp) ==
    [a \in DOMAIN camps |->
        LET c == camps[a] IN
        IF /\ c.status = "ACTIVE"
           /\ c.deadline_ts < now_timestamp
           /\ c.withdrawn = FALSE
           /\ c.total_raised_wei < c.goal_wei
        THEN [c EXCEPT !.status = "FAILED"] ELSE c]

(* ------------------------------------------------------------------ *)
(* Message dispatch and the broker                                    *)
(* ------------------------------------------------------------------ *)

\* What a statement of a unit of work can raise: nothing, a transient store
\* error (sqlalchemy OperationalError) or another exception.
Faults == {"none", "OperationalError", "Exception"}

\* Variant of get_session that commits before it re-raises.
get_session_commit_on_error(before, result, fault) ==
    IF fault # "none" THEN [result EXCEPT !.returned = fault] ELSE result

\* get_session(): the block's work is committed on normal exit; on an
\* exception the session is rolled back and the exception re-raised.
get_session(before, result, fault) ==
    IF fault # "none" THEN [before EXCEPT !.returned = fault] ELSE result

\* EventHandler._handle_rollback_message inside get_session().
handle_rollback_message(camps, contribs, evs, from_block, to_block) ==
    LET marked == MarkRemoved(evs, from_block, to_block)
        db == rebuild_state(Store(camps, contribs), QueryView(evs, marked),
                            from_block, to_block)
    IN Result(db.campaigns, db.contributions, marked, "True")

\* EventHandler._handle_reconciliation_message inside get_session().
handle_reconciliation_message(camps, contribs, evs, now) ==
    Result(mark_expired_campaigns(camps, now), contribs, evs, "True")

\* A message body: whether it parses as JSON, and the fields of the object.
Body(json, message_type, data, from_block, to_block) ==
    [json |-> json, message_type |-> message_type, data |-> data,
     from_block |-> from_block, to_block |-> to_block]

\* EventHandler.handle_message: the rows committed and what is returned
\* ("True", "False") or raised ("IntegrityError", "TransientError").
handle_message(camps, contribs, evs, body, fault, now) ==
    LET before == Result(camps, contribs, evs, "False")
        outcome(r) ==
            CASE r.returned = "OperationalError" -> [r EXCEPT !.returned = "TransientError"]
              [] r.returned = "Exception"        -> [r EXCEPT !.returned = "False"]
              [] OTHER                           -> r
    IN IF ~body.json THEN before
       ELSE CASE body.message_type = "event" ->
                   outcome(get_session(before,
                               handle_event_message(camps, contribs, evs, body.data),
                               fault))
              [] body.message_type = "rollback" ->
                   outcome(get_session(before,
                               handle_rollback_message(camps, contribs, evs,
                                                       body.from_block, body.to_block),
                               fault))
              [] body.message_type = "reconciliation" ->
                   outcome(get_session(before,
                               handle_reconciliation_message(camps, contribs, evs, now),
                               fault))
              [] OTHER -> before

\* Most requeues on the bus that are followed.
MaxRequeues == 4

\* The messages published to the bus: a body that is not JSON, a message of
\* an unknown type, the creation of campaign "b" and its donation, a rollback
\* over all blocks and a reconciliation.
BusIds == 1..6

BusBody(i) ==
    CASE i = 1 -> Body(FALSE, "", << >>, 0, 0)
      [] i = 2 -> Body(TRUE, "heartbeat", << >>, 0, 0)
      [] i = 3 -> Body(TRUE, "event",
                       CHOOSE m \in Msgs : /\ m.event_type = "CampaignCreated"
                                           /\ m.event_data.campaign = "b",
                       0, 0)
      [] i = 4 -> Body(TRUE, "event",
                       CHOOSE m \in Msgs : /\ m.event_type = "DonationReceived"
                                           /\ m.event_data.campaign = "b",
                       0, 0)
      [] i = 5 -> Body(TRUE, "rollback", << >>, 1, MaxBlock)
      [] i = 6 -> Body(TRUE, "reconciliation", << >>, 0, 0)

\* A message as RabbitMQPublisher.publish puts it on its queue: no headers.
\* answers: the channel calls of the consumer on its latest delivery.
Published == [status |-> "ready", headers |-> << >>, requeues |-> 0, answers |-> << >>]

\* The broker on basic_ack, basic_reject(requeue=False) and
\* basic_nack(requeue=True): the requeued message is the one delivered.
Broker(entry, told) ==
    CASE told = "ack"          -> [entry EXCEPT !.status = "acked"]
      [] told = "reject"       -> [entry EXCEPT !.status = "dead"]
      [] told = "nack_requeue" -> [entry EXCEPT !.requeues = @ + 1]
      [] OTHER                 -> entry

(* ------------------------------------------------------------------ *)
(* Producer: the chain, the cursor and the reorg detector             *)
(* ------------------------------------------------------------------ *)

\* Config.block_batch_size and Config.reorg_rollback_blocks defaults.
block_batch_size == 2000

reorg_rollback_blocks == 50

\* Most blocks a reorg replaces one after the other at one height, plus one:
\* block hashes are 1..MaxFork.
MaxFork == 2

\* sync_state.last_block_hash when None or "" (falsy).
NoHash == 0

\* handle_reorg is not between publish_rollback and the cursor update.
NoReorg == [active |-> FALSE, from_block |-> 0, to_block |-> 0]

\* No index_block_range is running.
NoRun == [active |-> FALSE, current |-> 0, to_block |-> 0]

Min(a, b) == IF a < b THEN a ELSE b

Max(a, b) == IF a > b THEN a ELSE b

\* A block hash as a hex string: the number n > 0 is the string of digest n
\* in lower case (what HexBytes.hex() returns), -n the same digest spelled
\* in upper case.  str.lower() on such a string:
lower(h) == IF h < 0 THEN 0 - h ELSE h

\* Variant of check_reorg that compares the two strings as they are.
check_reorg_case_sensitive(p, block_number, rpc_ok) ==
    IF p.last_block < block_number THEN FALSE
    ELSE /\ p.last_block = block_number
         /\ p.last_block_hash # NoHash
         /\ rpc_ok
         /\ p.last_block_hash # p.hash[block_number]

\* ReorgDetector.check_reorg(block_number) on producer state p; rpc_ok tells
\* whether eth_client.get_block_hash answers.
check_reorg(p, block_number, rpc_ok) ==
    IF p.last_block < block_number THEN FALSE
    ELSE /\ p.last_block = block_number
         /\ p.last_block_hash # NoHash
         /\ rpc_ok
         /\ lower(p.last_block_hash) # lower(p.hash[block_number])

\* The rollback message of handle_reorg.
RollbackMessage(from_block, to_block) ==
    [message_type |-> "rollback", from_block |-> from_block, to_block |-> to_block]

\* The event message of the log of block n (one log per block).
LogMessage(p, n) ==
    [message_type |-> "event", block_number |-> n, block_hash |-> p.hash[n]]

\* ConsumerWorker processes started by run_consumer.
Workers == {1, 2}

\* A worker between two deliveries.
Idle == [pc |-> "idle"]

Withdrawn(camps) == {a \in DOMAIN camps : camps[a].status = "WITHDRAWN"}

\* The producer when it starts on a new chain, with
\* ReorgDetector.rollback_blocks = config.reorg_rollback_blocks.
InitProducer(rollback_blocks) ==
    [latest |-> 0, hash |-> [n \in 0..MaxBlock |-> 1],
     last_block |-> 0, last_block_hash |-> NoHash,
     run |-> NoRun, mismatch |-> FALSE, published |-> {},
     rollback_blocks |-> rollback_blocks, handling |-> NoReorg,
     sent |-> << >>, shutdown |-> FALSE]

\* Empty tables, idle workers, the messages of the bus published.
InitConsumer ==
    /\ campaigns = << >>
    /\ contributions = << >>
    /\ events = EmptyBag
    /\ processed = {}
    /\ after_withdrawn = {}
    /\ wtx = [w \in Workers |-> Idle]
    /\ replay = [phase |-> "apply", E |-> << >>, todo |-> << >>,
                 snap |-> Store(<< >>, << >>)]
    /\ bus = [i \in BusIds |-> Published]

Init ==
    /\ InitConsumer
    /\ producer = InitProducer(reorg_rollback_blocks)

\* A worker is handed event message m (first delivery or re-delivery).
HandleEventMessage(m) ==
    LET r == handle_event_message(campaigns, contributions, events, m) IN
    /\ campaigns' = r.campaigns
    /\ contributions' = r.contributions
    /\ events' = r.events
    /\ processed' = IF m.event_data.campaign \in DOMAIN campaigns'
                    THEN processed \cup {m} ELSE processed
    /\ after_withdrawn' = after_withdrawn \cup
                            ({m.event_data.campaign} \cap Withdrawn(campaigns))
    /\ UNCHANGED <<wtx, bus, producer>>

\* A worker is handed a rollback message for [from_block, to_block]:
\* RollbackHandler.handle_rollback, then the commit of the unit of work.
HandleRollbackMessage(from_block, to_block) ==
    LET marked == MarkRemoved(events, from_block, to_block)
        db == rebuild_state(Store(campaigns, contributions),
                            QueryView(events, marked), from_block, to_block)
    IN /\ events' = marked
       /\ campaigns' = db.campaigns
       /\ contributions' = db.contributions
       /\ UNCHANGED <<processed, after_withdrawn, wtx, bus, producer>>

\* A worker is handed a reconciliation message while the clock reads now.
HandleReconciliationMessage(now) ==
    /\ campaigns' = mark_expired_campaigns(campaigns, now)
    /\ after_withdrawn' = after_withdrawn \cup Withdrawn(campaigns)
    /\ UNCHANGED <<contributions, events, processed, wtx, bus, producer>>

EventStep == (\E m \in Msgs : HandleEventMessage(m)) /\ UNCHANGED replay

RollbackStep ==
    /\ \E f \in Blocks : \E t \in f..MaxBlock : HandleRollbackMessage(f, t)
    /\ UNCHANGED replay

ReconciliationStep ==
    /\ \E now \in Times : HandleReconciliationMessage(now)
    /\ UNCHANGED replay

Next == EventStep \/ RollbackStep \/ ReconciliationStep

Spec == Init /\ [][Next]_vars

\* The consumer on a bus that carries no rollback message.
NextNoRollback == EventStep \/ ReconciliationStep

SpecNoRollback == Init /\ [][NextNoRollback]_vars

(* ------------------------------------------------------------------ *)
(* Rollback and second publication: a sequence E of distinct event    *)
(* messages is handled, then a rollback message whose range covers    *)
(* every block of E, then the messages of E again in the same order.  *)
(* ------------------------------------------------------------------ *)

Range(seq) == {seq[i] : i \in 1..Len(seq)}

\* [from_block, to_block] covers the block of every message of E.
Covers(from_block, to_block, E) ==
    \A m \in Range(E) : from_block <= m.block_number /\ m.block_number <= to_block

\* The next message of E is handled; E is what was handled so far.
ReplayApply(m) ==
    /\ replay.phase = "apply"
    /\ m \notin Range(replay.E)
    /\ HandleEventMessage(m)
    /\ replay' = [replay EXCEPT !.E = Append(@, m)]

\* The rollback message over a range covering E is handled; the campaign and
\* contribution rows E led to are remembered as S1.
ReplayRollback(from_block, to_block) ==
    /\ replay.phase = "apply"
    /\ replay.E # << >>
    /\ Covers(from_block, to_block, replay.E)
    /\ HandleRollbackMessage(from_block, to_block)
    /\ replay' = [phase |-> "replay", E |-> replay.E, todo |-> replay.E,
                  snap |-> Store(campaigns, contributions)]

\* The next message of the second publication of E is handled.
ReplayDeliver ==
    /\ replay.phase = "replay"
    /\ HandleEventMessage(Head(replay.todo))
    /\ replay' = [replay EXCEPT !.todo = Tail(@),
                                !.phase = IF Len(replay.todo) = 1
                                          THEN "done" ELSE "replay"]

NextReplay ==
    \/ \E m \in Msgs : ReplayApply(m)
    \/ \E f \in Blocks : \E t \in f..MaxBlock : ReplayRollback(f, t)
    \/ ReplayDeliver

SpecReplay == Init /\ [][NextReplay]_vars

(* ------------------------------------------------------------------ *)
(* Deliveries from the broker: ConsumerWorker._on_message on a queued *)
(* message, during which a statement of the unit of work may fail.    *)
(* ------------------------------------------------------------------ *)

RECURSIVE Requeues(_, _)
Requeues(b, n) == IF n = 0 THEN 0 ELSE b[n].requeues + Requeues(b, n - 1)

\* The clock readings that make a difference to the delivery of message i:
\* only the reconciliation handler reads the clock.
Clock(i) == IF BusBody(i).message_type = "reconciliation" THEN Times ELSE {MaxNow}

Deliver(i, fault, now) ==
    LET r == handle_message(campaigns, contributions, events, BusBody(i), fault, now)
        calls == answers(r.returned, get_retry_count(bus[i].headers))
        told == IF calls = << >> THEN "none" ELSE calls[1]
    IN /\ bus[i].status = "ready"
       /\ told = "nack_requeue" => Requeues(bus, Cardinality(BusIds)) < MaxRequeues
       /\ bus' = [bus EXCEPT ![i] = [Broker(@, told) EXCEPT !.answers = calls]]
       /\ campaigns' = r.campaigns
       /\ contributions' = r.contributions
       /\ events' = r.events
       /\ UNCHANGED <<processed, after_withdrawn, wtx, replay, producer>>

NextBroker == \E i \in BusIds : \E fault \in Faults : \E now \in Clock(i) : Deliver(i, fault, now)

SpecBroker == Init /\ [][NextBroker]_vars

(* ------------------------------------------------------------------ *)
(* The producer process and the chain it follows                      *)
(* ------------------------------------------------------------------ *)

consumer == <<campaigns, contributions, events, processed, after_withdrawn,
              wtx, replay, bus>>

\* A block is mined (get_latest_block counts confirmed blocks).
Mine ==
    /\ producer.latest < MaxBlock
    /\ producer' = [producer EXCEPT !.latest = @ + 1]
    /\ UNCHANGED consumer

\* The chain reorganizes: block b and the blocks after it are replaced.
Reorg(b) ==
    /\ b <= producer.latest
    /\ \A n \in b..MaxBlock : producer.hash[n] < MaxFork
    /\ producer' = [producer EXCEPT
                      !.hash = [n \in 0..MaxBlock |-> IF n >= b THEN @[n] + 1 ELSE @[n]]]
    /\ UNCHANGED consumer

\* run_producer, one turn of the polling loop with new blocks: it calls
\* index_block_range(last_block + 1, latest_block).  mismatch remembers
\* whether the stored hash of the cursor's block differed from the chain's
\* when the poll began.
Poll ==
    /\ ~producer.run.active
    /\ producer.latest > producer.last_block
    /\ producer' = [producer EXCEPT
                      !.run = [active |-> TRUE, current |-> producer.last_block + 1,
                               to_block |-> producer.latest],
                      !.mismatch = /\ producer.last_block > 0
                                   /\ producer.last_block_hash # NoHash
                                   /\ producer.last_block_hash
                                         # producer.hash[producer.last_block]]
    /\ UNCHANGED consumer

\* backfill(from_block, to_block): it calls index_block_range on the range.
Backfill(from_block, to_block) ==
    /\ ~producer.run.active
    /\ producer' = [producer EXCEPT
                      !.run = [active |-> TRUE, current |-> from_block,
                               to_block |-> to_block],
                      !.mismatch = FALSE]
    /\ UNCHANGED consumer

\* index_block_range, a turn of the loop in which check_and_handle_reorg
\* returns True: the rollback message is published, the cursor rewound
\* (_update_sync_state_for_rollback) and the loop restarts after the cursor.
HandleReorg(hash_ok) ==
    LET p == producer
        block_number == p.run.current
        to_block == block_number
        from_block == Max(0, block_number - p.rollback_blocks)
        new_last_block == Max(0, from_block - 1)
    IN /\ p.run.active
       /\ check_reorg(p, block_number, TRUE)
       /\ producer' = [p EXCEPT
             !.published = @ \cup {RollbackMessage(from_block, to_block)},
             !.last_block = new_last_block,
             !.last_block_hash = IF new_last_block > 0 /\ hash_ok
                                 THEN p.hash[new_last_block] ELSE NoHash,
             !.mismatch = FALSE,
             !.run = [active |-> new_last_block + 1 <= p.run.to_block,
                      current |-> IF new_last_block + 1 <= p.run.to_block
                                  THEN new_last_block + 1 ELSE 0,
                      to_block |-> IF new_last_block + 1 <= p.run.to_block
                                   THEN p.run.to_block ELSE 0]]
       /\ UNCHANGED consumer

\* What can go wrong in a turn of the loop of index_block_range.
BatchFaults == {"none", "check_failed", "get_logs_failed", "get_block_failed"}

\* index_block_range, a turn of the loop in which check_and_handle_reorg
\* returns False (no reorg seen, or get_block_hash or publish_rollback
\* failed: "check_failed"): the logs of [current, batch_end] are fetched and
\* published, those of the blocks in ok with success, and the cursor is set
\* to batch_end.  When get_logs raises, the turn ends in the except branch.
IndexBatch(ok, fault) ==
    LET p == producer
        current == p.run.current
        batch_end == Min(current + block_batch_size - 1, p.run.to_block)
        next == batch_end + 1
        run == IF next <= p.run.to_block
               THEN [p.run EXCEPT !.current = next] ELSE NoRun
    IN /\ p.run.active
       /\ ok \subseteq Max(current, 1)..Min(batch_end, p.latest)
       /\ check_reorg(p, current, TRUE) <=> fault = "check_failed"
       /\ IF fault = "get_logs_failed"
          THEN /\ ok = {}
               /\ producer' = [p EXCEPT !.run = run]
          ELSE producer' = [p EXCEPT
                  !.published = @ \cup {LogMessage(p, n) : n \in ok},
                  !.last_block = batch_end,
                  !.last_block_hash = IF fault = "get_block_failed" \/ batch_end > p.latest
                                      THEN NoHash ELSE p.hash[batch_end],
                  !.run = run]
       /\ UNCHANGED consumer

NextProducer ==
    \/ Mine
    \/ \E b \in Blocks : Reorg(b)
    \/ Poll
    \/ \E f \in 0..MaxBlock : \E t \in f..MaxBlock : Backfill(f, t)
    \/ \E hash_ok \in BOOLEAN : HandleReorg(hash_ok)
    \/ \E fault \in BatchFaults : \E ok \in SUBSET Blocks : IndexBatch(ok, fault)

SpecProducer == Init /\ [][NextProducer]_vars

(* ------------------------------------------------------------------ *)
(* The producer with handle_reorg run statement by statement: the     *)
(* process can be killed between publish_rollback and the update of   *)
(* the cursor.                                                        *)
(* ------------------------------------------------------------------ *)

\* handle_reorg, line 87: publisher.publish_rollback returns True.  (When it
\* returns False, check_and_handle_reorg returns False: IndexBatch.)
ReorgPublish ==
    LET p == producer
        block_number == p.run.current
        from_block == Max(0, block_number - p.rollback_blocks)
    IN /\ p.run.active
       /\ ~p.handling.active
       /\ check_reorg(p, block_number, TRUE)
       /\ producer' = [p EXCEPT
             !.published = @ \cup {RollbackMessage(from_block, block_number)},
             !.handling = [active |-> TRUE, from_block |-> from_block,
                           to_block |-> block_number]]
       /\ UNCHANGED consumer

\* handle_reorg, lines 94-96: _update_sync_state_for_rollback(from_block),
\* then index_block_range restarts after the cursor.
ReorgRewind(hash_ok) ==
    LET p == producer
        new_last_block == Max(0, p.handling.from_block - 1)
        restart == new_last_block + 1 <= p.run.to_block
    IN /\ p.handling.active
       /\ producer' = [p EXCEPT
             !.last_block = new_last_block,
             !.last_block_hash = IF new_last_block > 0 /\ hash_ok
                                 THEN p.hash[new_last_block] ELSE NoHash,
             !.mismatch = FALSE,
             !.handling = NoReorg,
             !.run = IF restart
                     THEN [active |-> TRUE, current |-> new_last_block + 1,
                           to_block |-> p.run.to_block]
                     ELSE NoRun]
       /\ UNCHANGED consumer

\* The producer process is killed (or loses its database connection for
\* good) and is started again later.
Crash ==
    /\ producer.run.active
    /\ producer' = [producer EXCEPT !.run = NoRun, !.handling = NoReorg,
                                     !.mismatch = FALSE]
    /\ UNCHANGED consumer

NextReorgSteps ==
    \/ Mine
    \/ \E b \in Blocks : Reorg(b)
    \/ ~producer.handling.active /\ Poll
    \/ /\ ~producer.handling.active
       /\ \E f \in 0..MaxBlock : \E t \in f..MaxBlock : Backfill(f, t)
    \/ /\ ~producer.handling.active
       /\ \E fault \in BatchFaults : \E ok \in SUBSET Blocks : IndexBatch(ok, fault)
    \/ ReorgPublish
    \/ \E hash_ok \in BOOLEAN : ReorgRewind(hash_ok)
    \/ Crash

SpecReorgSteps == Init /\ [][NextReorgSteps]_vars

\* Largest REORG_ROLLBACK_BLOCKS the producer is started with below.
MaxWindow == 2

\* The producer started with a rollback window that the chain outgrows.
InitWindow ==
    /\ InitConsumer
    /\ \E rollback_blocks \in 1..MaxWindow : producer = InitProducer(rollback_blocks)

SpecWindow == InitWindow /\ [][NextProducer]_vars

(* ------------------------------------------------------------------ *)
(* Concurrent workers: every worker runs its unit of work statement   *)
(* by statement against the shared database (READ COMMITTED: a        *)
(* statement sees what is committed when it runs, plus the session's  *)
(* own flushed rows).  A step groups a write with the reads that      *)
(* follow it; a statement that must wait for a row lock or for an     *)
(* uncommitted insert of the same key is not enabled until then.      *)
(* ------------------------------------------------------------------ *)

\* The rows of table t with the given keys: what a SELECT by key loads.
Restrict(t, keys) == [k \in keys \cap DOMAIN t |-> t[k]]

\* UPDATE of a loaded row: the unit of work writes the attributes it changed.
FlushRow(stored, loaded, current) ==
    [f \in DOMAIN current |-> IF current[f] # loaded[f] THEN current[f] ELSE stored[f]]

\* Flush of a session's rows into a table: rows it created are INSERTed,
\* rows it loaded are UPDATEd.
Flush(table, loaded, current) ==
    [k \in DOMAIN table \cup DOMAIN current |->
        IF k \notin DOMAIN current THEN table[k]
        ELSE IF k \notin DOMAIN loaded THEN current[k]
        ELSE FlushRow(table[k], loaded[k], current[k])]

\* Keys the session would INSERT although the table has them by now
\* (primary key of campaigns, uq_contributions_campaign_donor).
InsertConflict(table, loaded, current) ==
    \E k \in DOMAIN current \ DOMAIN loaded : k \in DOMAIN table

\* Rows the session INSERTs or UPDATEs on flush.
Dirty(loaded, current) ==
    {k \in DOMAIN current : k \notin DOMAIN loaded \/ current[k] # loaded[k]}

Session(pc, m, loaded, current, row) ==
    [pc |-> pc, m |-> m, loaded |-> loaded, current |-> current, row |-> row]

\* The event row a worker builds from message m (_handle_event_message,
\* lines 112-119 and 134-143).
EventRow(m) ==
    Event(m.tx_hash, m.log_index, m.block_number,
          IF m.event_type = "CampaignCreated" /\ m.event_data.campaign # ""
          THEN m.event_data.campaign ELSE m.address,
          m.event_type, json_dumps(m.event_data), FALSE)

\* Campaign rows written by the flush of line 131 and not yet committed.
CampaignLocks(t) ==
    IF t.pc \in {"insert_event", "commit"} /\ t.m.event_type = "CampaignCreated"
    THEN Dirty(t.loaded.campaigns, t.current.campaigns) ELSE {}

CampaignLocked(w, a) == \E v \in Workers \ {w} : a \in CampaignLocks(wtx[v])

\* Variant: an INSERT that does not wait for another transaction's
\* uncommitted row of the same key.
EventInsertPending_no_wait(w, row) == FALSE

\* Another worker's uncommitted INSERT of the same event key.
EventInsertPending(w, row) ==
    \E v \in Workers \ {w} :
        wtx[v].pc = "commit" /\ SameKey(wtx[v].row, row.tx_hash, row.log_index)

history == <<processed, after_withdrawn, replay, bus, producer>>

\* A worker between two deliveries, after _on_message has answered the
\* broker for a handler that returned or raised `returned` on a delivery
\* without retry header.
Done(returned) ==
    [pc |-> "idle", told |-> on_message(returned, get_retry_count(Published.headers))]

\* The deliveries the workers race for: the messages of campaign "a".
WorkerMsgs == {m \in Msgs : m.event_data.campaign = "a"}

\* Worker w takes delivery of event message m and runs its first statement:
\* for CampaignCreated the SELECT of apply_campaign_created, otherwise the
\* SELECT of insert_event (a row found: return True, commit, ack).
WorkerBegin(w, m) ==
    /\ wtx[w].pc = "idle"
    /\ \A v \in Workers : v < w => wtx[v].pc # "idle"
    /\ IF m.event_type = "CampaignCreated"
       THEN LET loaded == Store(Restrict(campaigns, {m.event_data.campaign}), << >>)
            IN wtx' = [wtx EXCEPT ![w] =
                         Session("flush_campaign", m, loaded,
                                 apply_campaign_created(loaded, m.event_data),
                                 EventRow(m))]
       ELSE IF existing(events, m.tx_hash, m.log_index)
            THEN wtx' = [wtx EXCEPT ![w] = Done("True")]
            ELSE wtx' = [wtx EXCEPT ![w] =
                           Session("insert_event", m, Store(<< >>, << >>),
                                   Store(<< >>, << >>), EventRow(m))]
    /\ UNCHANGED <<campaigns, contributions, events, history>>

\* session.flush() of line 131, then the SELECT of insert_event.
WorkerFlushCampaign(w) ==
    LET t == wtx[w]
        dirty == Dirty(t.loaded.campaigns, t.current.campaigns)
    IN
    /\ t.pc = "flush_campaign"
    /\ \A a \in dirty : ~CampaignLocked(w, a)
    /\ IF InsertConflict(campaigns, t.loaded.campaigns, t.current.campaigns)
       THEN \* primary key violation: IntegrityError, rollback
            /\ wtx' = [wtx EXCEPT ![w] = Done("IntegrityError")]
            /\ UNCHANGED campaigns
       ELSE IF existing(events, t.m.tx_hash, t.m.log_index)
            THEN \* return True inside the with block: get_session() commits
                 /\ campaigns' = Flush(campaigns, t.loaded.campaigns, t.current.campaigns)
                 /\ wtx' = [wtx EXCEPT ![w] = Done("True")]
            ELSE /\ wtx' = [wtx EXCEPT ![w].pc = "insert_event"]
                 /\ UNCHANGED campaigns
    /\ UNCHANGED <<contributions, events, history>>

\* session.add(event); session.flush() of insert_event, then the SELECTs of
\* apply_event.
WorkerInsertEvent(w) ==
    LET t == wtx[w]
        d == t.m.event_data
        loaded == Store(Restrict(campaigns, {d.campaign}),
                        Restrict(contributions, {<<d.campaign, d.donor>>}))
    IN
    /\ t.pc = "insert_event"
    /\ ~EventInsertPending(w, t.row)
    /\ IF uq_events_chain_tx_log(events, t.row)
       THEN \* session.rollback(), return False; nothing left to commit
            wtx' = [wtx EXCEPT ![w] = Done("True")]
       ELSE IF t.row.address \notin (DOMAIN campaigns \cup DOMAIN t.current.campaigns)
            THEN \* foreign key violation: session.rollback(), raise
                 wtx' = [wtx EXCEPT ![w] = Done("IntegrityError")]
            ELSE IF t.m.event_type = "CampaignCreated"
                 THEN wtx' = [wtx EXCEPT ![w].pc = "commit"]
                 ELSE wtx' = [wtx EXCEPT ![w] =
                                 Session("commit", t.m, loaded,
                                         apply_event(loaded, t.m.event_type, d),
                                         t.row)]
    /\ UNCHANGED <<campaigns, contributions, events, history>>

\* session.commit() of line 159: the flush of the rows changed by
\* apply_event, then COMMIT.
WorkerCommit(w) ==
    LET t == wtx[w] IN
    /\ t.pc = "commit"
    /\ \A a \in Dirty(t.loaded.campaigns, t.current.campaigns) : ~CampaignLocked(w, a)
    /\ IF InsertConflict(contributions, t.loaded.contributions, t.current.contributions)
       THEN \* IntegrityError on flush: the unit of work is rolled back
            /\ wtx' = [wtx EXCEPT ![w] = Done("IntegrityError")]
            /\ UNCHANGED <<campaigns, contributions, events>>
       ELSE /\ campaigns' = Flush(campaigns, t.loaded.campaigns, t.current.campaigns)
            /\ contributions' = Flush(contributions, t.loaded.contributions,
                                      t.current.contributions)
            /\ events' = events (+) SetToBag({t.row})
            /\ wtx' = [wtx EXCEPT ![w] = Done("True")]
    /\ UNCHANGED history

\* A rollback or reconciliation message is handled by a further worker; its
\* UPDATEs wait for the campaign rows other workers have locked.
WorkerControl ==
    /\ RollbackStep \/ ReconciliationStep
    /\ \A a \in DOMAIN campaigns :
          campaigns'[a] # campaigns[a] => ~CampaignLocked(0, a)

NextWorkers ==
    \/ \E w \in Workers : \E m \in WorkerMsgs : WorkerBegin(w, m)
    \/ \E w \in Workers : WorkerFlushCampaign(w)
    \/ \E w \in Workers : WorkerInsertEvent(w)
    \/ \E w \in Workers : WorkerCommit(w)
    \/ WorkerControl

SpecWorkers == Init /\ [][NextWorkers]_vars

(* ------------------------------------------------------------------ *)
(* The producer tailing a chain whose logs are the event messages of  *)
(* Msgs, with the consumer handling what has been published: what a   *)
(* batch fetches and in which order it publishes.                     *)
(* ------------------------------------------------------------------ *)

\* eth_getLogs answers in chain order: the logs of S by (block, log index).
RECURSIVE SortLogs(_)
SortLogs(S) ==
    IF S = {} THEN << >>
    ELSE LET first == CHOOSE m \in S : \A o \in S : Before(m, o)
         IN <<first>> \o SortLogs(S \ {first})

\* eth_client.get_logs(address, from_block, to_block, [topic])
get_logs(address, from_block, to_block, topic) ==
    SortLogs({m \in Msgs : /\ m.address = address
                           /\ m.event_type = topic
                           /\ from_block <= m.block_number
                           /\ m.block_number <= to_block})

\* get_all_campaign_topics()
get_all_campaign_topics == <<"DonationReceived", "Withdrawn", "Refunded">>

\* ProducerCampaignIndexer.index_block_range, lines 83-99: all_logs, the
\* logs of every address of campaign_list in turn, topic after topic.
RECURSIVE all_logs(_, _, _)
all_logs(campaign_list, from_block, to_block) ==
    IF campaign_list = << >> THEN << >>
    ELSE LET address == Head(campaign_list)
             topics == get_all_campaign_topics
         IN get_logs(address, from_block, to_block, topics[1])
            \o get_logs(address, from_block, to_block, topics[2])
            \o get_logs(address, from_block, to_block, topics[3])
            \o all_logs(Tail(campaign_list), from_block, to_block)

\* list(campaign_addresses): the addresses of a set in any order.
Lists(S) ==
    {l \in [1..Cardinality(S) -> S] : \A i, j \in 1..Cardinality(S) : l[i] = l[j] => i = j}

\* What can go wrong in a batch of the tailing producer: get_logs raising
\* for the factory ("get_logs_failed") or for the first campaign of
\* campaign_list ("campaign_get_logs_failed"), a failing query of the
\* campaigns table, get_block raising, the cursor update raising.
TailFaults == {"none", "get_logs_failed", "campaign_get_logs_failed",
               "get_known_campaign_addresses_failed",
               "get_block_failed", "update_sync_state_failed"}

\* index_block_range, one turn of its loop without reorg: the factory logs
\* of [current, batch_end] are published, then the logs of the campaigns the
\* campaigns table holds at that moment, in the order of campaign_list, every
\* publish succeeding (a failing publish: IndexBatch).  Then the cursor is
\* written.  An exception of the factory fetch ends the batch in the except
\* branch of index_block_range; an exception of a campaign's fetch is caught
\* and logged by the campaign indexer, which goes on with the next address.
TailBatch(fault, campaign_list) ==
    LET p == producer
        current == p.run.current
        batch_end == Min(current + block_batch_size - 1, p.run.to_block)
        next == batch_end + 1
        run == IF next <= p.run.to_block
               THEN [p.run EXCEPT !.current = next] ELSE NoRun
        factory_logs == get_logs(Factory, current, batch_end, "CampaignCreated")
        fetched == IF fault = "get_known_campaign_addresses_failed"
                   THEN factory_logs
                   ELSE IF fault = "campaign_get_logs_failed"
                   THEN factory_logs \o all_logs(Tail(campaign_list), current, batch_end)
                   ELSE factory_logs \o all_logs(campaign_list, current, batch_end)
        sent == fetched
    IN /\ p.run.active
       /\ ~p.shutdown
       /\ ~check_reorg(p, current, TRUE)
       /\ campaign_list \in Lists(DOMAIN campaigns)
       /\ fault = "campaign_get_logs_failed" => campaign_list # << >>
       /\ CASE fault = "get_logs_failed" ->
                 producer' = [p EXCEPT !.run = run, !.sent = << >>]
            [] fault \in {"get_known_campaign_addresses_failed",
                          "update_sync_state_failed"} ->
                 producer' = [p EXCEPT !.published = @ \cup Range(sent),
                                       !.sent = sent, !.run = run]
            [] OTHER ->
                 producer' = [p EXCEPT
                    !.published = @ \cup Range(sent),
                    !.sent = sent,
                    !.last_block = batch_end,
                    !.last_block_hash = IF fault = "get_block_failed"
                                        THEN NoHash ELSE p.hash[batch_end],
                    !.run = run]
       /\ UNCHANGED consumer

\* run_producer, one turn of "while not _shutdown" with new blocks.
TailPoll == ~producer.shutdown /\ Poll

\* A consumer handles a published event message it has not stored yet.
TailConsume(m) ==
    /\ m \in producer.published
    /\ ~existing(events, m.tx_hash, m.log_index)
    /\ HandleEventMessage(m)
    /\ UNCHANGED replay

\* signal_handler: SIGINT or SIGTERM sets _shutdown.
Signal ==
    /\ ~producer.shutdown
    /\ producer' = [producer EXCEPT !.shutdown = TRUE]
    /\ UNCHANGED consumer

\* index_block_range leaves its loop on _shutdown.
TailStop ==
    /\ producer.shutdown
    /\ producer.run.active
    /\ producer' = [producer EXCEPT !.run = NoRun]
    /\ UNCHANGED consumer

NextTail ==
    \/ Mine
    \/ TailPoll
    \/ \E fault \in TailFaults : \E campaign_list \in Lists(DOMAIN campaigns) :
          TailBatch(fault, campaign_list)
    \/ \E m \in Msgs : TailConsume(m)
    \/ Signal
    \/ TailStop

SpecTail == Init /\ [][NextTail]_vars

(* ------------------------------------------------------------------ *)
(* check_reorg on any stored cursor and any chain                     *)
(* ------------------------------------------------------------------ *)

\* The spellings of the block hashes.
Spellings == {h \in (0 - MaxFork)..MaxFork : h # NoHash}

\* check_reorg was not called yet.
NotCalled == [called |-> FALSE, block_number |-> 0, rpc_ok |-> FALSE, value |-> FALSE]

\* Any cursor row and any chain, hashes in either case.
InitCheckReorg ==
    /\ InitConsumer
    /\ \E lb \in 0..MaxBlock, lh \in Spellings \cup {NoHash}, ch \in Spellings :
          producer = [latest |-> MaxBlock, hash |-> [n \in 0..MaxBlock |-> ch],
                      last_block |-> lb, last_block_hash |-> lh,
                      run |-> NoRun, mismatch |-> FALSE, published |-> {},
                      rollback_blocks |-> reorg_rollback_blocks,
                      handling |-> NoReorg, returned |-> NotCalled]

\* check_reorg(block_number) is called and its result kept.
CheckReorg(block_number, rpc_ok) ==
    /\ ~producer.returned.called
    /\ producer' = [producer EXCEPT
                      !.returned = [called |-> TRUE,
                                    block_number |-> block_number, rpc_ok |-> rpc_ok,
                                    value |-> check_reorg(producer, block_number, rpc_ok)]]
    /\ UNCHANGED consumer

NextCheckReorg == \E n \in 0..MaxBlock : \E rpc_ok \in BOOLEAN : CheckReorg(n, rpc_ok)

SpecCheckReorg == InitCheckReorg /\ [][NextCheckReorg]_vars

(* ------------------------------------------------------------------ *)
(* A race of two deliveries: after some event messages were handled   *)
(* one after the other, worker 1 and worker 2 each take one delivery  *)
(* and run their units of work statement by statement, side by side.  *)
(* ------------------------------------------------------------------ *)

\* The tables when the two deliveries are handed out.
Tables(camps, contribs, evs) ==
    [campaigns |-> camps, contributions |-> contribs, events |-> evs]

\* An event message of campaign "a" is handled before the race.
RaceSetup ==
    /\ replay.phase = "apply"
    /\ \E m \in WorkerMsgs : HandleEventMessage(m)
    /\ UNCHANGED replay

\* The broker hands m1 to worker 1 and m2 to worker 2 (two deliveries of one
\* message when m1 = m2).
RaceStart(m1, m2) ==
    /\ replay.phase = "apply"
    /\ replay' = [phase |-> "race", E |-> <<m1, m2>>, todo |-> << >>,
                  snap |-> Tables(campaigns, contributions, events)]
    /\ UNCHANGED <<campaigns, contributions, events, processed, after_withdrawn,
                   wtx, bus, producer>>

\* Worker w begins the unit of work of its delivery.
RaceBegin(w) ==
    /\ replay.phase = "race"
    /\ wtx[w] = Idle
    /\ WorkerBegin(w, replay.E[w])

NextRace ==
    \/ RaceSetup
    \/ \E m1, m2 \in WorkerMsgs : RaceStart(m1, m2)
    \/ \E w \in Workers : RaceBegin(w)
    \/ \E w \in Workers : WorkerFlushCampaign(w)
    \/ \E w \in Workers : WorkerInsertEvent(w)
    \/ \E w \in Workers : WorkerCommit(w)

SpecRace == Init /\ [][NextRace]_vars

(* ------------------------------------------------------------------ *)
(* A unit of work that calls insert_event directly, several times in  *)
(* one session (tests/test_idempotency.py, pipeline indexers), with   *)
(* either of the two implementations of insert_event.                 *)
(* ------------------------------------------------------------------ *)

\* Most calls of insert_event in one unit of work.
MaxCalls == 2

\* The two implementations: services.state_updater.insert_event and
\* ConsumerStateUpdater.insert_event.
Impls == {"services", "consumer"}

\* A session inside "with get_session() as session": the rows it has
\* flushed and not committed, and the calls made so far with their results.
UnitOfWork(impl, flushed, calls) ==
    [pc |-> "unit_of_work", impl |-> impl, flushed |-> flushed, calls |-> calls]

Called(flushed, returned) == [flushed |-> flushed, returned |-> returned]

\* services.state_updater.insert_event: session.add, session.flush; on any
\* IntegrityError session.rollback(), which ends the transaction and with it
\* every row flushed so far, and False is returned.
services_insert_event(camps, committed, flushed, row) ==
    IF \/ uq_events_chain_tx_log(committed (+) flushed, row)
       \/ events_address_fkey(camps, row)
    THEN Called(EmptyBag, "False")
    ELSE Called(flushed (+) SetToBag({row}), "True")

\* ConsumerStateUpdater.insert_event in the same session: the SELECT runs in
\* the session's transaction and so sees the rows it has flushed.
consumer_insert_event(camps, committed, flushed, row) ==
    LET inserted == insert_event(camps, committed (+) flushed, row) IN
    CASE inserted = "True"  -> Called(flushed (+) SetToBag({row}), "True")
      [] inserted = "False" -> Called(flushed, "False")
      [] inserted = "Duplicate" -> Called(EmptyBag, "False")
      [] OTHER -> Called(EmptyBag, "IntegrityError")

\* with get_session() as session:
SessionBegin(impl) ==
    /\ wtx[1] = Idle
    /\ wtx' = [wtx EXCEPT ![1] = UnitOfWork(impl, EmptyBag, << >>)]
    /\ UNCHANGED <<campaigns, contributions, events, history>>

\* insert_event(session, ...) with the row of message m.  An IntegrityError
\* that leaves insert_event ends the unit of work in get_session's except
\* branch.
SessionInsertEvent(m) ==
    LET t == wtx[1]
        row == EventRow(m)
        r == IF t.impl = "services"
             THEN services_insert_event(campaigns, events, t.flushed, row)
             ELSE consumer_insert_event(campaigns, events, t.flushed, row)
    IN /\ t.pc = "unit_of_work"
       /\ Len(t.calls) < MaxCalls
       /\ wtx' = [wtx EXCEPT ![1] =
                    IF r.returned = "IntegrityError" THEN Idle
                    ELSE UnitOfWork(t.impl, r.flushed,
                                    Append(t.calls, [row |-> row, returned |-> r.returned]))]
       /\ UNCHANGED <<campaigns, contributions, events, history>>

\* The with block ends: session.commit().
SessionCommit ==
    /\ wtx[1].pc = "unit_of_work"
    /\ events' = events (+) wtx[1].flushed
    /\ wtx' = [wtx EXCEPT ![1] = Idle]
    /\ UNCHANGED <<campaigns, contributions, history>>

\* Between two units of work a consumer handles an event message of
\* campaign "b", which gives the tables their campaign rows.
SessionOther ==
    /\ wtx[1] = Idle
    /\ \E m \in Msgs \ WorkerMsgs : HandleEventMessage(m)
    /\ UNCHANGED replay

NextSession ==
    \/ \E impl \in Impls : SessionBegin(impl)
    \/ \E m \in Msgs : SessionInsertEvent(m)
    \/ SessionCommit
    \/ SessionOther

SpecSession == Init /\ [][NextSession]_vars

(* ------------------------------------------------------------------ *)
(* Shutdown of the consumer workers: run_worker installs              *)
(* signal_handler for SIGINT and SIGTERM and blocks in                *)
(* start_consuming, which hands every delivery to _on_message.        *)
(* ------------------------------------------------------------------ *)

\* A worker blocked in start_consuming, with the value of the module's
\* _shutdown flag.
Consuming(shutdown) == [pc |-> "idle", shutdown |-> shutdown]

\* A worker whose process has left start_consuming and run stop().
Exited(shutdown) == [pc |-> "exited", shutdown |-> shutdown]

\* start_consuming hands a delivery to _on_message of worker w, whatever the
\* value of _shutdown, which nothing reads.
WorkerDeliver(w, i, fault, now) ==
    /\ wtx[w] \in {Idle, Consuming(TRUE)}
    /\ Deliver(i, fault, now)

\* signal_handler in worker w: _shutdown = True, and the interrupted call
\* goes on (no KeyboardInterrupt is raised once the handler is installed).
WorkerSignal(w) ==
    /\ wtx[w] = Idle
    /\ wtx' = [wtx EXCEPT ![w] = Consuming(TRUE)]
    /\ UNCHANGED <<campaigns, contributions, events, history>>

\* The connection to the broker is lost: start_consuming raises, stop() runs
\* in the finally branch and the process ends.
WorkerConnectionLost(w) ==
    /\ wtx[w] \in {Idle, Consuming(TRUE)}
    /\ wtx' = [wtx EXCEPT ![w] = Exited(wtx[w] = Consuming(TRUE))]
    /\ UNCHANGED <<campaigns, contributions, events, history>>

\* The messages queued when the workers are signalled: the two event
\* messages of the bus.
ShutdownIds == {i \in BusIds : BusBody(i).json /\ BusBody(i).message_type = "event"}

Consume ==
    \E w \in Workers : \E i \in ShutdownIds : \E fault \in Faults : \E now \in Clock(i) :
        WorkerDeliver(w, i, fault, now)

NextShutdown ==
    \/ Consume
    \/ \E w \in Workers : WorkerSignal(w)
    \/ \E w \in Workers : WorkerConnectionLost(w)

\* The workers take the deliveries that are ready; signals and the loss of
\* a connection may or may not happen.
SpecShutdown == Init /\ [][NextShutdown]_vars /\ WF_vars(Consume)

(* ------------------------------------------------------------------ *)
(* Properties                                                         *)
(* ------------------------------------------------------------------ *)

RECURSIVE SumAmount(_)
SumAmount(S) ==
    IF S = {} THEN 0
    ELSE LET x == CHOOSE y \in S : TRUE
         IN x.event_data.amount + SumAmount(S \ {x})

Donations(S, a, d) ==
    {m \in S : /\ m.event_type = "DonationReceived"
               /\ m.event_data.campaign = a
               /\ m.event_data.donor = d}

Status(camps, a) == IF a \in DOMAIN camps THEN camps[a].status ELSE "NONE"

\* C2: handling an event message whose (chain_id, tx_hash, log_index) already
\* has an event row is acked and changes no campaign and no contribution row.
C2_RedeliveryHasNoEffect ==
    [][\A m \in Msgs :
          (existing(events, m.tx_hash, m.log_index) /\ HandleEventMessage(m))
          => /\ campaigns' = campaigns
             /\ contributions' = contributions
             /\ on_message(handle_event_message(campaigns, contributions,
                                                events, m).returned, 0) = "ack"]_vars

\* C3: without rollback messages, every (campaign, donor) pair's contributed_wei
\* is the sum of amount over the distinct DonationReceived messages handled for
\* the pair on an existing campaign, whatever the order and the re-deliveries.
C3_ExactlyOnceDonations ==
    \A a \in Addrs : \A d \in Donors :
        LET total == SumAmount(Donations(processed, a, d)) IN
        IF <<a, d>> \in DOMAIN contributions
        THEN contributions[<<a, d>>].contributed_wei = total
        ELSE total = 0

\* C3 witness: two distinct donations of one donor were added up, and the
\* single donation of the other campaign was counted once.
C3_Witness ==
    /\ <<"a", "d1">> \in DOMAIN contributions
    /\ contributions[<<"a", "d1">>].contributed_wei = 3
    /\ Cardinality(Donations(processed, "a", "d1")) = 2
    /\ <<"b", "d1">> \in DOMAIN contributions
    /\ contributions[<<"b", "d1">>].contributed_wei = 1

\* The newTotalRaised of the campaign's latest non-removed DonationReceived
\* row by (block_number, log_index), 0 without one.
LastNewTotalRaised(evs, a) ==
    LET ds == {e \in Rows(evs) : /\ e.event_name = "DonationReceived"
                                 /\ e.address = a
                                 /\ ~e.removed}
    IN IF ds = {} THEN 0
       ELSE LET last == CHOOSE e \in ds : \A o \in ds : Before(o, e)
            IN json_loads(last.event_data).newTotalRaised

\* C4: every campaign's total_raised_wei is the newTotalRaised of its most
\* recent non-removed DonationReceived event row, or 0 if it has none.
C4_TotalRaisedIsLastDonation ==
    \A a \in DOMAIN campaigns :
        campaigns[a].total_raised_wei = LastNewTotalRaised(events, a)

StatusDAG ==
    {<<"ACTIVE", "SUCCESS">>, <<"SUCCESS", "WITHDRAWN">>, <<"ACTIVE", "FAILED">>}

\* C5: every status change made by an event or reconciliation message is
\* ACTIVE->SUCCESS, SUCCESS->WITHDRAWN or ACTIVE->FAILED.
C5_StatusTransitionsFormDAG ==
    [][(EventStep \/ ReconciliationStep) =>
          \A a \in DOMAIN campaigns :
              \/ campaigns'[a].status = campaigns[a].status
              \/ <<campaigns[a].status, campaigns'[a].status>> \in StatusDAG]_vars

\* C6: once a campaign is WITHDRAWN, no event or reconciliation message sets
\* its status to ACTIVE or SUCCESS.
C6_WithdrawnIsFinal ==
    [][(EventStep \/ ReconciliationStep) =>
          \A a \in DOMAIN campaigns :
              campaigns[a].status = "WITHDRAWN"
              => campaigns'[a].status \notin {"ACTIVE", "SUCCESS"}]_vars

\* C6 witness: a message was handled for campaign "a" while it was WITHDRAWN
\* (with both donations and the creation delivered), and it still is.
C6_Witness ==
    /\ "a" \in after_withdrawn
    /\ Status(campaigns, "a") = "WITHDRAWN"
    /\ campaigns["a"].total_raised_wei = 3
    /\ \A m \in Msgs : m.event_data.campaign = "a" => m \in processed

\* C7: every contribution row has contributed_wei >= refunded_wei.
C7_NetContributionNonnegative ==
    \A k \in DOMAIN contributions :
        contributions[k].contributed_wei >= contributions[k].refunded_wei

\* C8: after a rollback over [from, to], every campaign referenced by an event
\* row that was in range and not removed has total_raised_wei = 0,
\* withdrawn = false and withdrawn_amount_wei = null, and its contributions
\* have contributed_wei = 0 and refunded_wei = 0.
C8_RollbackResetsAffected ==
    [][\A f \in Blocks : \A t \in f..MaxBlock :
          HandleRollbackMessage(f, t) =>
             LET affected == {e.address : e \in {x \in Rows(events) :
                                  /\ x.block_number >= f
                                  /\ x.block_number <= t
                                  /\ ~x.removed}}
             IN /\ \A a \in affected \cap DOMAIN campaigns' :
                      /\ campaigns'[a].total_raised_wei = 0
                      /\ campaigns'[a].withdrawn = FALSE
                      /\ campaigns'[a].withdrawn_amount_wei = Null
                /\ \A k \in DOMAIN contributions' :
                      k[1] \in affected
                      => contributions'[k] = Contribution(0, 0)]_vars

\* C9: a rollback over [from, to] sets removed on every event row with
\* from <= block_number <= to, deletes no row and leaves the removed flag of
\* every row outside the range as it was.
C9_RollbackMarksRange ==
    [][\A f \in Blocks : \A t \in f..MaxBlock :
          HandleRollbackMessage(f, t) =>
             /\ BagCardinality(events') = BagCardinality(events)
             /\ \A e \in Rows(events) :
                   IF f <= e.block_number /\ e.block_number <= t
                   THEN [e EXCEPT !.removed = TRUE] \in Rows(events')
                   ELSE e \in Rows(events')
             /\ \A e \in Rows(events') :
                   (f <= e.block_number /\ e.block_number <= t) => e.removed]_vars

\* C9 witness: a rollback over block 2 alone has acted: the rows of block 2
\* are removed, those of blocks 1 and 3 are not.
C9_Witness ==
    /\ \E e \in Rows(events) : e.block_number = 2 /\ e.removed
    /\ \E e \in Rows(events) : e.block_number = 1 /\ ~e.removed
    /\ \E e \in Rows(events) : e.block_number = 3 /\ ~e.removed
    /\ \A e \in Rows(events) : e.removed <=> e.block_number = 2

\* C1: the events table never holds two rows with the same
\* (chain_id, tx_hash, log_index), whatever the workers interleave.
C1_EventKeyUnique ==
    /\ \A r1 \in Rows(events) : \A r2 \in Rows(events) :
          (r1.chain_id = r2.chain_id /\ r1.tx_hash = r2.tx_hash
             /\ r1.log_index = r2.log_index) => r1 = r2
    /\ \A r \in Rows(events) : CopiesIn(r, events) = 1

\* C1 witness: a worker found no row for its message and is about to INSERT
\* it, while another worker has committed the row of the same key.
C1_Witness ==
    \E w \in Workers :
        /\ wtx[w].pc = "insert_event"
        /\ \E r \in Rows(events) : SameKey(r, wtx[w].m.tx_hash, wtx[w].m.log_index)

\* The messages of E were handled in ascending (block_number, log_index).
Ascending(E) ==
    \A i \in 1..Len(E) : \A j \in 1..Len(E) :
        i < j => \/ E[i].block_number < E[j].block_number
                 \/ /\ E[i].block_number = E[j].block_number
                    /\ E[i].log_index < E[j].log_index

C11_RollbackTwiceIsOnce ==
    [][\A f \in Blocks : \A t \in f..MaxBlock :
          HandleRollbackMessage(f, t) =>
             LET marked == MarkRemoved(events', f, t)
                 db == rebuild_state(Store(campaigns', contributions'),
                                     QueryView(events', marked), f, t)
             IN /\ marked = events'
                /\ db = Store(campaigns', contributions')]_vars

\* C11 witness: a rollback has marked both donations of campaign "a" and the
\* replay has left its total at 3 with donor "d1" at 3 contributed.
C11_Witness ==
    /\ Cardinality({e \in Rows(events) : /\ e.event_name = "DonationReceived"
                                         /\ e.address = "a" /\ e.removed}) = 2
    /\ "a" \in DOMAIN campaigns
    /\ campaigns["a"].total_raised_wei = 3
    /\ <<"a", "d1">> \in DOMAIN contributions
    /\ contributions[<<"a", "d1">>].contributed_wei = 3

C13_ReconciliationMarksExpired ==
    [][\A now \in Times :
          HandleReconciliationMessage(now) =>
             /\ DOMAIN campaigns' = DOMAIN campaigns
             /\ \A a \in DOMAIN campaigns :
                   LET c == campaigns[a]
                       expired == /\ c.status = "ACTIVE"
                                  /\ c.deadline_ts < now
                                  /\ c.total_raised_wei < c.goal_wei
                                  /\ c.withdrawn = FALSE
                   IN campaigns'[a] = IF expired THEN [c EXCEPT !.status = "FAILED"]
                                      ELSE c
             /\ contributions' = contributions
             /\ events' = events
             /\ mark_expired_campaigns(campaigns', now) = campaigns']_vars

\* C13 witness: campaign "b" (1 raised of 3, deadline 2) is FAILED, campaign "a"
\* (3 raised of 3) is SUCCESS.
C13_Witness ==
    /\ Status(campaigns, "a") = "SUCCESS"
    /\ Status(campaigns, "b") = "FAILED"
    /\ campaigns["b"].total_raised_wei = 1
    /\ campaigns["a"].total_raised_wei = 3

SubEvents == {"DonationReceived", "Withdrawn", "Refunded"}

\* C14: an acked DonationReceived, Withdrawn or Refunded message has its event
\* row stored: one that arrived while its campaign row did not exist was
\* nacked, not acked and dropped.
C14_MissingCampaignIsNacked ==
    \A i \in BusIds :
        LET b == BusBody(i) IN
        (/\ b.message_type = "event"
         /\ b.data.event_type \in SubEvents
         /\ bus[i].status = "acked")
        => existing(events, b.data.tx_hash, b.data.log_index)

\* The messages whose processing fails on every delivery, whatever the store
\* does: the body is not JSON or the message_type is unknown.
Unprocessable ==
    {i \in BusIds : \/ ~BusBody(i).json
                    \/ BusBody(i).message_type \notin {"event", "rollback", "reconciliation"}}

\* C15: a message whose processing fails on every delivery is requeued at
\* most max_retries times.
C15_RequeuedAtMostMaxRetries ==
    \A i \in Unprocessable : bus[i].requeues <= max_retries

\* C16: a message whose body is not JSON or whose message_type is unknown is
\* never requeued.
C16_UnparsableIsNeverRequeued ==
    \A i \in Unprocessable : bus[i].requeues = 0

\* C17: a delivery that ends in nack or reject leaves the campaign,
\* contribution and event rows as they were before it, and a delivery on which
\* a statement fails with a transient store error (OperationalError) is
\* nacked with requeue.
C17_PerMessageAtomicity ==
    [][\A i \in BusIds : \A fault \in Faults : \A now \in Clock(i) :
          Deliver(i, fault, now) =>
             /\ bus'[i].status # "acked"
                   => /\ campaigns' = campaigns
                      /\ contributions' = contributions
                      /\ events' = events
             /\ (fault = "OperationalError" /\ i \notin Unprocessable)
                   => /\ bus'[i].status = "ready"
                      /\ bus'[i].requeues = bus[i].requeues + 1]_vars

\* C17 witness: the donation of "b" and the rollback message have each been
\* nacked and requeued; the donation was then handled and acked, the rollback
\* is still queued and no event row is marked removed.
C17_Witness ==
    /\ bus[4].status = "acked"
    /\ bus[4].requeues > 0
    /\ bus[5].status = "ready"
    /\ bus[5].requeues > 0
    /\ BagCardinality(events) = 2
    /\ \A e \in Rows(events) : ~e.removed
    /\ <<"b", "d1">> \in DOMAIN contributions
    /\ contributions[<<"b", "d1">>].contributed_wei = 1

\* C18: a turn of index_block_range in which the publish of some log of the
\* batch fails leaves the cursor where it was: the cursor is set to batch_end
\* only if every log of [current, batch_end] was published.
C18_CursorAdvancesOnlyIfPublished ==
    [][\A ok \in SUBSET Blocks :
          IndexBatch(ok, "none") =>
             LET current == producer.run.current
                 batch_end == Min(current + block_batch_size - 1, producer.run.to_block)
                 logs == Max(current, 1)..Min(batch_end, producer.latest)
             IN ok # logs => /\ producer'.last_block = producer.last_block
                             /\ producer'.last_block_hash = producer.last_block_hash]_vars

\* C19: when a poll began with the cursor at a block B > 0 whose stored hash
\* differs from the chain's hash of B, no logs are fetched and published in
\* that poll before the rollback message has been published.
C19_ReorgDeclaredBeforeLogs ==
    [][\A ok \in SUBSET Blocks : IndexBatch(ok, "none") => ~producer.mismatch]_vars

\* C20: the cursor's last_block decreases only in the reorg handler's rewind.
C20_CursorMonotonic ==
    [][producer'.last_block < producer.last_block
          => \E hash_ok \in BOOLEAN : HandleReorg(hash_ok)]_vars

\* C21: in every cursor state with last_block > 0 the cursor holds a hash
\* for that block (never an empty or null one), also after an RPC failure
\* while the cursor is advanced or rewound.
C21_CursorHasHash ==
    producer.last_block > 0 => producer.last_block_hash # NoHash

\* C22: processing a Refunded event (its event row is stored) for an existing
\* contribution adds amount to its refunded_wei and leaves its
\* contributed_wei, every other contribution and every campaign row (so the
\* campaign's total_raised_wei and status) unchanged; for an unknown
\* contribution no campaign or contribution row changes.
C22_RefundedFrame ==
    [][\A m \in Msgs :
          (m.event_type = "Refunded" /\ HandleEventMessage(m) /\ events' # events) =>
             LET k == <<m.event_data.campaign, m.event_data.donor>> IN
             /\ campaigns' = campaigns
             /\ contributions' =
                   IF k \in DOMAIN contributions
                   THEN [contributions EXCEPT
                            ![k].refunded_wei = @ + m.event_data.amount]
                   ELSE contributions]_vars

\* A Refunded event was processed for an existing contribution.
C22_Witness ==
    /\ \E e \in Rows(events) : e.event_name = "Refunded" /\ ~e.removed
    /\ <<"b", "d1">> \in DOMAIN contributions
    /\ contributions[<<"b", "d1">>].contributed_wei = 1
    /\ contributions[<<"b", "d1">>].refunded_wei = 1

\* The event rows of evs with the given key, with their multiplicity.
KeyRows(evs, tx_hash, log_index) ==
    LET S == {e \in Rows(evs) : SameKey(e, tx_hash, log_index)}
    IN [e \in S |-> CopiesIn(e, evs)]

\* C23: when insert_event is called twice in one unit of work with the same
\* (chain_id, tx_hash, log_index) and the first call returns True, the
\* second returns False and exactly one event row with that key exists
\* afterwards (the first, uncommitted insert is still there).
C23_DuplicateKeepsFirstInsert ==
    LET t == wtx[1] IN
    (/\ t.pc = "unit_of_work"
     /\ Len(t.calls) = 2
     /\ SameKey(t.calls[1].row, t.calls[2].row.tx_hash, t.calls[2].row.log_index)
     /\ t.calls[1].returned = "True")
    => /\ t.calls[2].returned = "False"
       /\ BagCardinality(KeyRows(events (+) t.flushed, t.calls[1].row.tx_hash,
                                 t.calls[1].row.log_index)) = 1

\* Two hash strings are equal when case is ignored.
EqualIgnoringCase(h1, h2) == h1 = h2 \/ h1 = 0 - h2

\* C24: check_reorg(n), with the chain answering, returns true exactly when
\* the stored cursor has last_block = n, a non-empty stored hash, and the
\* chain's current hash of block n differs from the stored hash ignoring
\* case; so it returns false when the hashes match and when last_block < n.
C24_CheckReorg ==
    (producer.returned.called /\ producer.returned.rpc_ok) =>
        LET n == producer.returned.block_number IN
        producer.returned.value <=>
            /\ producer.last_block = n
            /\ producer.last_block_hash # NoHash
            /\ ~EqualIgnoringCase(producer.last_block_hash, producer.hash[n])

\* check_reorg returned true for a stored hash and a chain hash of different
\* digests, spelled in different cases.
C24_Witness ==
    /\ producer.returned.called
    /\ producer.returned.rpc_ok
    /\ producer.returned.value
    /\ producer.last_block = producer.returned.block_number
    /\ producer.last_block_hash = 1
    /\ producer.hash[producer.last_block] = 0 - 2

\* C25: when a reorg is declared at cursor block B, the rollback message
\* published has to_block = B and from_block = max(0, B - rollback_window + 1).
C25_RollbackRange ==
    [][\A hash_ok \in BOOLEAN :
          HandleReorg(hash_ok) =>
             LET B == producer.run.current
                 rollback_window == producer.rollback_blocks
             IN RollbackMessage(Max(0, B - rollback_window + 1), B)
                   \in producer'.published]_vars

\* C26: in reorg handling the cursor is rewound before the rollback message
\* is published: in no state has the rollback message of a reorg declared
\* at block B been published while the cursor still points at B.
C26_RewindBeforePublish ==
    producer.handling.active => producer.last_block # producer.handling.to_block

\* C27: within one batch the producer publishes event messages in ascending
\* (block_number, log_index) order: the messages a batch has published, in
\* the order of their publication, never descend.
C27_BatchPublishedAscending == Ascending(producer.sent)

\* C28: when the producer fetches the campaign logs of a batch, its campaign
\* address set contains every campaign whose CampaignCreated was published
\* in an earlier batch, however far the consumer has progressed.
C28_DiscoveryComplete ==
    [][\A campaign_list \in Lists(DOMAIN campaigns) :
          TailBatch("none", campaign_list) =>
             \A m \in producer.published :
                (m.event_type = "CampaignCreated"
                   /\ m.block_number < producer.run.current)
                => \E i \in 1..Len(campaign_list) :
                      campaign_list[i] = m.event_data.campaign]_vars

\* C29: every batch either has all the events it fetches published and the
\* cursor advanced to batch_end, or has no event published at all.
C29_BatchAllOrNothing ==
    [][\A fault \in TailFaults : \A campaign_list \in Lists(DOMAIN campaigns) :
          TailBatch(fault, campaign_list) =>
             LET current == producer.run.current
                 batch_end == Min(current + block_batch_size - 1, producer.run.to_block)
             IN \/ producer'.sent = << >>
                \/ /\ producer'.last_block = batch_end
                   /\ producer'.sent =
                         get_logs(Factory, current, batch_end, "CampaignCreated")
                         \o all_logs(campaign_list, current, batch_end)]_vars

\* C30: after a shutdown signal has been delivered to a consumer worker, the
\* worker eventually stops consuming and exits.
C30_SignalledWorkerExits ==
    \A w \in Workers : (wtx[w] = Consuming(TRUE)) ~> (wtx[w].pc = "exited")

Raced == replay.phase = "race" /\ \A w \in Workers : wtx[w].pc = "idle" /\ wtx[w] # Idle

\* C32: when two workers concurrently process two deliveries of one event
\* message (one whose campaign row exists or that creates it), both
\* deliveries are acked, exactly one event row with its key results, and the
\* tables are those that handling the message once leads to.
C32_ConcurrentDuplicateOnce ==
    LET m == replay.E[1]
        r == handle_event_message(replay.snap.campaigns, replay.snap.contributions,
                                  replay.snap.events, m)
    IN (Raced /\ replay.E[1] = replay.E[2] /\ r.returned = "True") =>
          /\ \A w \in Workers : wtx[w].told = "ack"
          /\ BagCardinality(KeyRows(events, m.tx_hash, m.log_index)) = 1
          /\ campaigns = r.campaigns
          /\ contributions = r.contributions
          /\ events = r.events

\* Two deliveries of the second donation to campaign a were raced on a
\* campaign that had the first donation: both acked, the amount added once.
C32_Witness ==
    /\ Raced
    /\ replay.E[1] = replay.E[2]
    /\ replay.E[1].event_type = "DonationReceived"
    /\ replay.E[1].event_data.amount = 2
    /\ <<"a", "d1">> \in DOMAIN replay.snap.contributions
    /\ replay.snap.contributions[<<"a", "d1">>].contributed_wei = 1
    /\ contributions[<<"a", "d1">>].contributed_wei = 3
    /\ \A w \in Workers : wtx[w].told = "ack"

\* contributed_wei of (campaign, donor) in a contributions table, 0 when
\* there is no row.
Contributed(contribs, campaign, donor) ==
    IF <<campaign, donor>> \in DOMAIN contribs
    THEN contribs[<<campaign, donor>>].contributed_wei ELSE 0

\* C33: when two workers concurrently process two different DonationReceived
\* messages of one (campaign, donor), neither handled before, and both are
\* acked, contributed_wei is the previous value plus both amounts.
C33_ConcurrentDonationsBothCounted ==
    LET m1 == replay.E[1]
        m2 == replay.E[2]
        d == m1.event_data
    IN (/\ Raced
        /\ m1 # m2
        /\ m1.event_type = "DonationReceived" /\ m2.event_type = "DonationReceived"
        /\ m2.event_data.campaign = d.campaign /\ m2.event_data.donor = d.donor
        /\ d.campaign \in DOMAIN replay.snap.campaigns
        /\ ~existing(replay.snap.events, m1.tx_hash, m1.log_index)
        /\ ~existing(replay.snap.events, m2.tx_hash, m2.log_index)
        /\ \A w \in Workers : wtx[w].told = "ack")
       => Contributed(contributions, d.campaign, d.donor)
            = Contributed(replay.snap.contributions, d.campaign, d.donor)
              + d.amount + m2.event_data.amount

Surviving(evs, name, a, d) ==
    {row \in BagToSet(evs) : /\ ~row.removed
                             /\ row.event_name = name
                             /\ json_loads(row.event_data).campaign = a
                             /\ json_loads(row.event_data).donor = d}

RECURSIVE SumRows(_)
SumRows(S) ==
    IF S = {} THEN 0
    ELSE LET x == CHOOSE y \in S : TRUE
         IN json_loads(x.event_data).amount + SumRows(S \ {x})

\* C35: after a rollback, for every (campaign, donor), contributed_wei is the
\* sum of the amounts of all DonationReceived rows that are not removed
\* (those of blocks before from_block included) and refunded_wei the sum over
\* the Refunded rows that are not removed.
C35_RollbackKeepsSurvivingEvents ==
    [][RollbackStep =>
          \A key \in DOMAIN contributions' :
              /\ contributions'[key].contributed_wei
                   = SumRows(Surviving(events', "DonationReceived", key[1], key[2]))
              /\ contributions'[key].refunded_wei
                   = SumRows(Surviving(events', "Refunded", key[1], key[2]))]_vars

\* C36: in every state a campaign has status WITHDRAWN exactly when its
\* withdrawn flag is true, and then withdrawn_amount_wei is not null.
C36_WithdrawnStatusIffFlag ==
    \A a \in DOMAIN campaigns :
        /\ (campaigns[a].status = "WITHDRAWN") <=> campaigns[a].withdrawn
        /\ campaigns[a].withdrawn => campaigns[a].withdrawn_amount_wei # Null

\* C37: every campaign with status SUCCESS has total_raised_wei >= goal_wei,
\* whatever the order in which the donations are delivered.
C37_SuccessMeansGoalReached ==
    \A a \in DOMAIN campaigns :
        campaigns[a].status = "SUCCESS" => campaigns[a].total_raised_wei >= campaigns[a].goal_wei

\* C38: a batch in which fetching logs fails (the factory fetch raises, or
\* the fetch of a campaign that has logs in the batch fails) does not advance
\* the cursor to or beyond the batch.
C38_FetchFailureHoldsCursor ==
    [][\A campaign_list \in Lists(DOMAIN campaigns) :
          LET current == producer.run.current
              batch_end == Min(current + block_batch_size - 1, producer.run.to_block)
          IN /\ TailBatch("get_logs_failed", campaign_list)
                  => producer'.last_block < current
             /\ (/\ TailBatch("campaign_get_logs_failed", campaign_list)
                 /\ all_logs(<<Head(campaign_list)>>, current, batch_end) # << >>)
                  => producer'.last_block < current]_vars

====
